---- MODULE Spec2Model ----
(***************************************************************************)
(* The IDO pool program (programs/ido-program): a phase-gated token pool.  *)
(* Each instruction handler is one action.  A handler that returns Err or  *)
(* panics aborts its transaction, so it leaves the accounts as they were;  *)
(* the result of the latest call is kept in `last` next to the accounts as *)
(* they were before the call.                                              *)
(***************************************************************************)
EXTENDS Integers, FiniteSets, Sequences, TLC

\* ---------------------------------------------------------------- bounds
\* The clock runs over 0..MaxTime.
MaxTime == 5
\* Deposit tokens each participant starts with.
InitDeposit == 2
\* Native tokens the organizer starts with.
InitNative == 2
\* Largest balance the pool's native vault may hold before initialize_pool.
MaxPreVault == 1
\* Width in bits that stands for the 64 bits of a u64; a u128 has twice as many.
Bits == 4

U64Max == 2 ^ Bits - 1
U128Max == 2 ^ (2 * Bits) - 1

\* ------------------------------------------------------- accounts, mints
Users == {"org", "p1", "p2"}
PoolSigner == "pool_signer"
Mints == {"native", "deposit", "redeemable"}
\* A token account is identified by its mint and its owner.
Accounts == Mints \X (Users \cup {PoolSigner})
mint(a) == a[1]
owner(a) == a[2]

pool_native == <<"native", PoolSigner>>
pool_deposit_token == <<"deposit", PoolSigner>>
redeemable_mint == "redeemable"

\* The bump of the pool_signer address derived from seeds [native_mint], and
\* the bump arguments initialize_pool is called with.
CanonicalBump == 255
Bumps == {CanonicalBump, CanonicalBump - 1}

\* The timestamp arguments of initialize_pool: an early, a late and a last one.
Timestamps == {1, MaxTime - 2, MaxTime - 1}
Amounts == 0 .. (InitDeposit + 1)
Totals == 0 .. (InitNative + 1)


\* The mints of the two token accounts a depositor passes to
\* exchange_deposit_token_for_redeemable (source, destination) and to
\* exchange_redeemable_for_native (destination, source): the intended pair,
\* a pair whose first account has another mint, and a pair whose second has.
DepositMints == {<<"deposit", "redeemable">>, <<"native", "redeemable">>, <<"deposit", "native">>}
RedeemMints == {<<"native", "redeemable">>, <<"deposit", "redeemable">>, <<"native", "deposit">>}

NoPool == [exists |-> FALSE]

VARIABLES
    now,     \* Clock::get().unix_timestamp
    pool,    \* the PoolAccount record, NoPool before initialize_pool
    bal,     \* amount of every token account
    supply,  \* supply of the redeemable mint
    last,    \* the latest call: its inputs, its result, the accounts before it
    hist,    \* what has happened to the pool so far
    distributor_account,  \* the DistributorAccount record of the token faucet
    token_mint,           \* supply of the faucet's token mint
    user_token_account,   \* amount of every user's account of that mint
    got      \* the latest faucet call and the sum of the amounts handed out

vars == <<now, pool, bal, supply, last, hist, distributor_account, token_mint, user_token_account, got>>

\* The variables of the IDO pool and those of the token faucet.
ido == <<now, pool, bal, supply, last, hist>>
faucet == <<distributor_account, token_mint, user_token_account, got>>

\* The faucet before initialize_distributor: no record, no mint, no call made.
NoDistributor == [is_initialized |-> FALSE]
NoRequest == [op |-> "none", err |-> "Ok", amount |-> 0, pre |-> 0, issued |-> 0]
FaucetFresh ==
    /\ distributor_account = NoDistributor
    /\ token_mint = 0
    /\ user_token_account = [u \in Users |-> 0]
    /\ got = NoRequest

\* ------------------------------------------------------ the token program
Ledger(b, s) == [err |-> "Ok", bal |-> b, supply |-> s]
LedgerErr(l, e) == [err |-> e, bal |-> l.bal, supply |-> l.supply]

\* token::transfer: the source must hold the amount, both accounts must be
\* of one mint, the authority must own the source; a transfer of an
\* account to itself changes nothing.
token_transfer(l, from, to, authority, amount) ==
    IF l.bal[from] < amount THEN LedgerErr(l, "InsufficientFunds")
    ELSE IF mint(from) # mint(to) THEN LedgerErr(l, "MintMismatch")
    ELSE IF owner(from) # authority THEN LedgerErr(l, "OwnerMismatch")
    ELSE IF from = to THEN Ledger(l.bal, l.supply)
    ELSE IF l.bal[to] + amount > U64Max THEN LedgerErr(l, "Overflow")
    ELSE Ledger([l.bal EXCEPT ![from] = @ - amount, ![to] = @ + amount], l.supply)

\* token::mint_to on the redeemable mint, whose mint authority is pool_signer.
token_mint_to(l, m, to, authority, amount) ==
    IF mint(to) # m THEN LedgerErr(l, "MintMismatch")
    ELSE IF authority # PoolSigner THEN LedgerErr(l, "OwnerMismatch")
    ELSE IF l.bal[to] + amount > U64Max \/ l.supply + amount > U64Max
        THEN LedgerErr(l, "Overflow")
    ELSE Ledger([l.bal EXCEPT ![to] = @ + amount], l.supply + amount)

\* token::burn from an account of the redeemable mint.
token_burn(l, m, from, authority, amount) ==
    IF l.bal[from] < amount THEN LedgerErr(l, "InsufficientFunds")
    ELSE IF mint(from) # m THEN LedgerErr(l, "MintMismatch")
    ELSE IF owner(from) # authority THEN LedgerErr(l, "OwnerMismatch")
    ELSE Ledger([l.bal EXCEPT ![from] = @ - amount], l.supply - amount)

\* ------------------------------------------------- access control modifiers
\* Each is TRUE when the modifier returns Ok; t is get_timestamp().
pre_ido_phase(start_ido_ts, t) == t < start_ido_ts

\* unrestricted_phase accepting the start timestamp itself.
unrestricted_phase_from_start(p, t) == p.start_ido_ts <= t /\ p.end_ido_ts > t

\* The deposit gate without its upper end.
unrestricted_phase_no_end(p, t) == p.start_ido_ts < t

unrestricted_phase(p, t) == p.start_ido_ts < t /\ p.end_ido_ts > t

\* ido_over accepting the end timestamp itself.
ido_over_at_end(p, t) == p.end_ido_ts <= t

ido_over(p, t) == p.end_ido_ts < t

can_withdraw_deposit_token(p, t) == p.withdraw_deposit_token_ts < t

\* ------------------------------------------------------------ the handlers
\* A handler takes the accounts st = [pool, bal, supply] and returns
\* [err, steps, pool, bal, supply]: steps lists the arithmetic and token
\* program calls it reached; on any err other than "Ok" the accounts are st's.
Reject(st, e, steps) ==
    [err |-> e, steps |-> steps, pool |-> st.pool, bal |-> st.bal, supply |-> st.supply]

Accept(st, p, l, steps) ==
    [err |-> "Ok", steps |-> steps, pool |-> p, bal |-> l.bal, supply |-> l.supply]

\* The PoolAccount fields initialize_pool writes.
PoolAccount(authority, total_native_tokens, start_ido_ts, end_ido_ts, withdraw_deposit_token_ts, bump) ==
    [exists |-> TRUE,
     pool_authority |-> authority,
     redeemable_mint |-> redeemable_mint,
     native_mint |-> mint(pool_native),
     deposit_token_mint |-> mint(pool_deposit_token),
     pool_native |-> pool_native,
     pool_deposit_token |-> pool_deposit_token,
     total_native_tokens |-> total_native_tokens,
     start_ido_ts |-> start_ido_ts,
     end_ido_ts |-> end_ido_ts,
     withdraw_deposit_token_ts |-> withdraw_deposit_token_ts,
     bump |-> bump]

\* initialize_pool accepting an end timestamp equal to the withdraw timestamp.
initialize_pool_end_eq(st, authority, creator_native, total_native_tokens, start_ido_ts, end_ido_ts, withdraw_deposit_token_ts, bump, t) ==
    IF ~pre_ido_phase(start_ido_ts, t) THEN Reject(st, "IdoFuture", <<>>)
    ELSE IF ~(start_ido_ts < end_ido_ts /\ end_ido_ts <= withdraw_deposit_token_ts)
        THEN Reject(st, "NonSequentialTimestamps", <<>>)
    ELSE IF total_native_tokens = 0 THEN Reject(st, "InvalidParameter", <<>>)
    ELSE LET r == token_transfer(st, creator_native, pool_native, authority,
                                 total_native_tokens)
         IN IF r.err # "Ok" THEN Reject(st, r.err, <<"transfer">>)
            ELSE Accept(st, PoolAccount(authority, total_native_tokens, start_ido_ts,
                            end_ido_ts, withdraw_deposit_token_ts, bump),
                        r, <<"transfer">>)

\* initialize_pool without its check of a zero total_native_tokens.
initialize_pool_zero(st, authority, creator_native, total_native_tokens, start_ido_ts, end_ido_ts, withdraw_deposit_token_ts, bump, t) ==
    IF ~pre_ido_phase(start_ido_ts, t) THEN Reject(st, "IdoFuture", <<>>)
    ELSE IF ~(start_ido_ts < end_ido_ts /\ end_ido_ts < withdraw_deposit_token_ts)
        THEN Reject(st, "NonSequentialTimestamps", <<>>)
    ELSE LET r == token_transfer(st, creator_native, pool_native, authority,
                                 total_native_tokens)
         IN IF r.err # "Ok" THEN Reject(st, r.err, <<"transfer">>)
            ELSE Accept(st, PoolAccount(authority, total_native_tokens, start_ido_ts,
                            end_ido_ts, withdraw_deposit_token_ts, bump),
                        r, <<"transfer">>)

initialize_pool(st, authority, creator_native, total_native_tokens, start_ido_ts, end_ido_ts, withdraw_deposit_token_ts, bump, t) ==
    IF ~pre_ido_phase(start_ido_ts, t) THEN Reject(st, "IdoFuture", <<>>)
    ELSE IF ~(start_ido_ts < end_ido_ts /\ end_ido_ts < withdraw_deposit_token_ts)
        THEN Reject(st, "NonSequentialTimestamps", <<>>)
    ELSE IF total_native_tokens = 0 THEN Reject(st, "InvalidParameter", <<>>)
    ELSE LET r == token_transfer(st, creator_native, pool_native, authority,
                                 total_native_tokens)
         IN IF r.err # "Ok" THEN Reject(st, r.err, <<"transfer">>)
            ELSE Accept(st, PoolAccount(authority, total_native_tokens, start_ido_ts,
                            end_ido_ts, withdraw_deposit_token_ts, bump),
                        r, <<"transfer">>)

\* exchange_deposit_token_for_redeemable minting the depositor's whole
\* deposit-token balance instead of the amount deposited.
exchange_deposit_token_for_redeemable_balance(st, authority, depositor_deposit_token, depositor_redeemable, amount, t) ==
    IF ~unrestricted_phase(st.pool, t) THEN Reject(st, "WrongInvestingTime", <<>>)
    ELSE IF amount = 0 THEN Reject(st, "InvalidParameter", <<>>)
    ELSE IF st.bal[depositor_deposit_token] < amount
        THEN Reject(st, "LowDepositToken", <<>>)
    ELSE LET r == token_transfer(st, depositor_deposit_token, pool_deposit_token,
                                 authority, amount)
         IN IF r.err # "Ok" THEN Reject(st, r.err, <<"transfer">>)
            ELSE LET m == token_mint_to(r, redeemable_mint, depositor_redeemable,
                                        PoolSigner, st.bal[depositor_deposit_token])
                 IN IF m.err # "Ok" THEN Reject(st, m.err, <<"transfer", "mint_to">>)
                    ELSE Accept(st, st.pool, m, <<"transfer", "mint_to">>)

\* exchange_deposit_token_for_redeemable minting the claim tokens without
\* moving the deposit into the pool's vault.
exchange_deposit_token_for_redeemable_unpaid(st, authority, depositor_deposit_token, depositor_redeemable, amount, t) ==
    IF ~unrestricted_phase(st.pool, t) THEN Reject(st, "WrongInvestingTime", <<>>)
    ELSE IF amount = 0 THEN Reject(st, "InvalidParameter", <<>>)
    ELSE IF st.bal[depositor_deposit_token] < amount
        THEN Reject(st, "LowDepositToken", <<>>)
    ELSE LET m == token_mint_to(st, redeemable_mint, depositor_redeemable,
                                PoolSigner, amount)
         IN IF m.err # "Ok" THEN Reject(st, m.err, <<"mint_to">>)
            ELSE Accept(st, st.pool, m, <<"mint_to">>)

\* exchange_deposit_token_for_redeemable keeping the deposit transfer when the
\* mint after it fails.
exchange_deposit_token_for_redeemable_partial(st, authority, depositor_deposit_token, depositor_redeemable, amount, t) ==
    IF ~unrestricted_phase(st.pool, t) THEN Reject(st, "WrongInvestingTime", <<>>)
    ELSE IF amount = 0 THEN Reject(st, "InvalidParameter", <<>>)
    ELSE IF st.bal[depositor_deposit_token] < amount
        THEN Reject(st, "LowDepositToken", <<>>)
    ELSE LET r == token_transfer(st, depositor_deposit_token, pool_deposit_token,
                                 authority, amount)
         IN IF r.err # "Ok" THEN Reject(st, r.err, <<"transfer">>)
            ELSE LET m == token_mint_to(r, redeemable_mint, depositor_redeemable,
                                        PoolSigner, amount)
                 IN IF m.err # "Ok"
                    THEN [Accept(st, st.pool, r, <<"transfer", "mint_to">>)
                            EXCEPT !.err = m.err]
                    ELSE Accept(st, st.pool, m, <<"transfer", "mint_to">>)

\* exchange_deposit_token_for_redeemable leaving the balance check to the
\* token program.
exchange_deposit_token_for_redeemable_unchecked(st, authority, depositor_deposit_token, depositor_redeemable, amount, t) ==
    IF ~unrestricted_phase(st.pool, t) THEN Reject(st, "WrongInvestingTime", <<>>)
    ELSE IF amount = 0 THEN Reject(st, "InvalidParameter", <<>>)
    ELSE LET r == token_transfer(st, depositor_deposit_token, pool_deposit_token,
                                 authority, amount)
         IN IF r.err # "Ok" THEN Reject(st, r.err, <<"transfer">>)
            ELSE LET m == token_mint_to(r, redeemable_mint, depositor_redeemable,
                                        PoolSigner, amount)
                 IN IF m.err # "Ok" THEN Reject(st, m.err, <<"transfer", "mint_to">>)
                    ELSE Accept(st, st.pool, m, <<"transfer", "mint_to">>)

exchange_deposit_token_for_redeemable(st, authority, depositor_deposit_token, depositor_redeemable, amount, t) ==
    IF ~unrestricted_phase(st.pool, t) THEN Reject(st, "WrongInvestingTime", <<>>)
    ELSE IF amount = 0 THEN Reject(st, "InvalidParameter", <<>>)
    ELSE IF st.bal[depositor_deposit_token] < amount
        THEN Reject(st, "LowDepositToken", <<>>)
    ELSE LET r == token_transfer(st, depositor_deposit_token, pool_deposit_token,
                                 authority, amount)
         IN IF r.err # "Ok" THEN Reject(st, r.err, <<"transfer">>)
            ELSE LET m == token_mint_to(r, redeemable_mint, depositor_redeemable,
                                        PoolSigner, amount)
                 IN IF m.err # "Ok" THEN Reject(st, m.err, <<"transfer", "mint_to">>)
                    ELSE Accept(st, st.pool, m, <<"transfer", "mint_to">>)

\* checked_mul done in u64, without widening its operands to u128.
checked_mul_u64(a, b) == IF a * b > U64Max THEN <<>> ELSE <<a * b>>

\* u128 checked_mul: None (the empty sequence) when the product overflows.
checked_mul(a, b) == IF a * b > U128Max THEN <<>> ELSE <<a * b>>

\* checked_div rounding the quotient up.
checked_div_up(a, b) == IF b = 0 THEN <<>> ELSE <<(a + b - 1) \div b>>

\* u128 checked_div: None (the empty sequence) on a zero divisor, else Some.
checked_div(a, b) == IF b = 0 THEN <<>> ELSE <<a \div b>>

\* exchange_redeemable_for_native taking the share of the pool's recorded
\* total_native_tokens instead of the share of the vault's balance.
exchange_redeemable_for_native_of_total(st, authority, depositor_native, depositor_redeemable, t) ==
    IF ~ido_over(st.pool, t) THEN Reject(st, "IdoNotOver", <<>>)
    ELSE LET product == checked_mul(st.bal[depositor_redeemable],
                                    st.pool.total_native_tokens)
             native_amount == IF Len(product) = 0 THEN <<>>
                              ELSE checked_div(product[1], st.supply)
         IN IF Len(product) = 0
            THEN Reject(st, "Panic", <<"checked_mul">>)
            ELSE IF Len(native_amount) = 0
            THEN Reject(st, "Panic", <<"checked_mul", "checked_div">>)
            ELSE LET b == token_burn(st, redeemable_mint, depositor_redeemable,
                                     authority, st.bal[depositor_redeemable])
                 IN IF b.err # "Ok"
                    THEN Reject(st, b.err, <<"checked_mul", "checked_div", "burn">>)
                    ELSE LET r == token_transfer(b, pool_native, depositor_native,
                                                 PoolSigner,
                                                 native_amount[1] % (U64Max + 1))
                         IN IF r.err # "Ok"
                            THEN Reject(st, r.err,
                                   <<"checked_mul", "checked_div", "burn", "transfer">>)
                            ELSE Accept(st, st.pool, r,
                                   <<"checked_mul", "checked_div", "burn", "transfer">>)

exchange_redeemable_for_native(st, authority, depositor_native, depositor_redeemable, t) ==
    IF ~ido_over(st.pool, t) THEN Reject(st, "IdoNotOver", <<>>)
    ELSE LET product == checked_mul(st.bal[depositor_redeemable], st.bal[pool_native])
             native_amount == IF Len(product) = 0 THEN <<>>
                              ELSE checked_div(product[1], st.supply)
         IN IF Len(product) = 0
            THEN Reject(st, "Panic", <<"checked_mul">>)
            ELSE IF Len(native_amount) = 0
            THEN Reject(st, "Panic", <<"checked_mul", "checked_div">>)
            ELSE LET b == token_burn(st, redeemable_mint, depositor_redeemable,
                                     authority, st.bal[depositor_redeemable])
                 IN IF b.err # "Ok"
                    THEN Reject(st, b.err, <<"checked_mul", "checked_div", "burn">>)
                    ELSE LET r == token_transfer(b, pool_native, depositor_native,
                                                 PoolSigner,
                                                 native_amount[1] % (U64Max + 1))
                         IN IF r.err # "Ok"
                            THEN Reject(st, r.err,
                                   <<"checked_mul", "checked_div", "burn", "transfer">>)
                            ELSE Accept(st, st.pool, r,
                                   <<"checked_mul", "checked_div", "burn", "transfer">>)

\* withdraw_pool_deposit_token emptying the native vault along with the
\* deposit vault.
withdraw_pool_deposit_token_both(st, creator_deposit_token, t) ==
    IF ~can_withdraw_deposit_token(st.pool, t) THEN Reject(st, "CannotWithdrawYet", <<>>)
    ELSE LET r == token_transfer(st, pool_deposit_token, creator_deposit_token,
                                 PoolSigner, st.bal[pool_deposit_token])
         IN IF r.err # "Ok" THEN Reject(st, r.err, <<"transfer">>)
            ELSE Accept(st, st.pool,
                        Ledger([r.bal EXCEPT ![pool_native] = 0], r.supply),
                        <<"transfer">>)

withdraw_pool_deposit_token(st, creator_deposit_token, t) ==
    IF ~can_withdraw_deposit_token(st.pool, t) THEN Reject(st, "CannotWithdrawYet", <<>>)
    ELSE LET r == token_transfer(st, pool_deposit_token, creator_deposit_token,
                                 PoolSigner, st.bal[pool_deposit_token])
         IN IF r.err # "Ok" THEN Reject(st, r.err, <<"transfer">>)
            ELSE Accept(st, st.pool, r, <<"transfer">>)

\* ------------------------------------------------------ account constraints
\* The #[derive(Accounts)] constraints a call must meet to reach its handler.
InitializePoolAccounts ==
    /\ ~pool.exists
    /\ owner(pool_native) = PoolSigner
    /\ owner(pool_deposit_token) = PoolSigner
    /\ supply = 0

\* seeds = [pool.native_mint], bump = pool.bump must give the pool_signer that
\* owns the vaults.
PoolSignerDerived == pool.exists /\ pool.bump = CanonicalBump

ExchangeDepositTokenForRedeemableAccounts(authority, depositor_deposit_token, depositor_redeemable) ==
    /\ PoolSignerDerived
    /\ pool.redeemable_mint = redeemable_mint
    /\ pool.pool_deposit_token = pool_deposit_token
    /\ owner(pool_deposit_token) = PoolSigner
    /\ owner(depositor_deposit_token) = authority
    /\ owner(depositor_redeemable) = authority

ExchangeRedeemableForNativeAccounts(authority, depositor_native, depositor_redeemable) ==
    /\ PoolSignerDerived
    /\ pool.redeemable_mint = redeemable_mint
    /\ pool.pool_native = pool_native
    /\ owner(pool_native) = PoolSigner
    /\ owner(depositor_native) = authority
    /\ owner(depositor_redeemable) = authority

WithdrawPoolDepositTokenAccounts(payer, creator_deposit_token) ==
    /\ PoolSignerDerived
    /\ pool.pool_deposit_token = pool_deposit_token
    /\ owner(pool_deposit_token) = PoolSigner
    /\ payer \in Users
    /\ creator_deposit_token \in Accounts

\* ------------------------------------------------------------------ actions
State == [pool |-> pool, bal |-> bal, supply |-> supply]

\* What has happened to the pool so far: the sums of the amounts deposited,
\* withdrawn, burned and paid out to redeemers, the native vault right after
\* initialize_pool, the clock of the latest successful deposit and of the
\* first successful redemption, the native vault and the claim supply just
\* before that redemption, and whether a withdrawal has succeeded.
NoHistory ==
    [deposited |-> 0, withdrawn |-> 0, burned |-> 0, paid |-> 0, vault0 |-> 0,
     last_deposit |-> <<>>, first_redeem |-> <<>>, redeem_vault |-> 0,
     redeem_supply |-> 0, withdrew |-> FALSE]

\* The record of a call: what was called, by whom, with which source and
\* destination account and amount, its result, and the accounts and the
\* history before it.
Call(op, authority, dst, amount, r) ==
    [op |-> op, authority |-> authority, src |-> dst, dst |-> dst, amount |-> amount,
     ts |-> <<0, 0, 0>>, err |-> r.err, steps |-> r.steps, pre |-> State,
     before |-> hist]

NoCall == [op |-> "none", authority |-> "org", src |-> pool_native, dst |-> pool_native,
           amount |-> 0, ts |-> <<0, 0, 0>>, err |-> "Ok", steps |-> <<>>, pre |-> NoPool,
           before |-> NoHistory]

\* The history h after the call c that ended in the accounts r at clock t.
Record(h, c, r, t) ==
    LET ok == c.err = "Ok"
        h0 == h
    IN IF ~ok THEN h0
       ELSE IF c.op = "initialize_pool" THEN [h0 EXCEPT !.vault0 = r.bal[pool_native]]
       ELSE IF c.op = "exchange_deposit_token_for_redeemable"
           THEN [h0 EXCEPT !.deposited = @ + c.amount, !.last_deposit = <<t>>]
       ELSE IF c.op = "exchange_redeemable_for_native"
           THEN [h0 EXCEPT !.burned = @ + c.pre.bal[c.src],
                           !.paid = @ + (r.bal[c.dst] - c.pre.bal[c.dst]),
                           !.first_redeem = IF @ = <<>> THEN <<t>> ELSE @,
                           !.redeem_vault = IF h.first_redeem = <<>>
                                            THEN c.pre.bal[pool_native] ELSE @,
                           !.redeem_supply = IF h.first_redeem = <<>>
                                             THEN c.pre.supply ELSE @]
       ELSE [h0 EXCEPT !.withdrew = TRUE,
                       !.withdrawn = @ + (IF c.dst = pool_deposit_token THEN 0
                                          ELSE c.pre.bal[pool_deposit_token])]

\* Transactions execute one at a time: the next one is processed once the
\* result of the previous one has been returned.
Idle == last.op = "none"

\* The handler's result r is written back and the call c recorded.
Commit(r, c) ==
    /\ pool' = r.pool
    /\ bal' = r.bal
    /\ supply' = r.supply
    /\ last' = c
    /\ hist' = Record(hist, c, r, now)
    /\ UNCHANGED now
    /\ UNCHANGED faucet

Init ==
    /\ now = 0
    /\ pool = NoPool
    /\ \E v \in 0 .. MaxPreVault :
         bal = [a \in Accounts |->
                  IF a = pool_native THEN v
                  ELSE IF a = <<"native", "org">> THEN InitNative
                  ELSE IF mint(a) = "deposit" /\ owner(a) \in {"p1", "p2"}
                       THEN InitDeposit
                  ELSE 0]
    /\ supply = 0
    /\ last = NoCall
    /\ hist = NoHistory
    /\ FaucetFresh

InitializePool ==
    /\ Idle
    /\ InitializePoolAccounts
    /\ \E authority \in Users, creator_native \in Accounts, total \in Totals,
          s \in Timestamps, e \in Timestamps, w \in Timestamps, bump \in Bumps :
         LET r == initialize_pool(State, authority, creator_native, total,
                                  s, e, w, bump, now)
         IN Commit(r, [Call("initialize_pool", authority, creator_native, total, r)
                         EXCEPT !.ts = <<s, e, w>>])

ExchangeDepositTokenForRedeemable ==
    /\ Idle
    /\ \E authority \in Users, m \in DepositMints, amount \in Amounts :
         LET depositor_deposit_token == <<m[1], authority>>
             depositor_redeemable == <<m[2], authority>>
         IN /\ ExchangeDepositTokenForRedeemableAccounts(authority,
                   depositor_deposit_token, depositor_redeemable)
            /\ LET r == exchange_deposit_token_for_redeemable(State, authority,
                            depositor_deposit_token, depositor_redeemable, amount, now)
               IN Commit(r, [Call("exchange_deposit_token_for_redeemable", authority,
                                  depositor_redeemable, amount, r)
                               EXCEPT !.src = depositor_deposit_token])

\* One exchange_redeemable_for_native call with the given accounts.
Redemption(authority, depositor_native, depositor_redeemable) ==
    /\ Idle
    /\ ExchangeRedeemableForNativeAccounts(authority, depositor_native,
                                           depositor_redeemable)
    /\ LET r == exchange_redeemable_for_native(State, authority,
                    depositor_native, depositor_redeemable, now)
       IN Commit(r, [Call("exchange_redeemable_for_native", authority,
                          depositor_native, 0, r)
                       EXCEPT !.src = depositor_redeemable])

ExchangeRedeemableForNative ==
    \E authority \in Users, m \in RedeemMints :
       Redemption(authority, <<m[1], authority>>, <<m[2], authority>>)

WithdrawPoolDepositToken ==
    /\ Idle
    /\ \E payer \in Users, creator_deposit_token \in Accounts :
         /\ WithdrawPoolDepositTokenAccounts(payer, creator_deposit_token)
         /\ LET r == withdraw_pool_deposit_token(State, creator_deposit_token, now)
            IN Commit(r, Call("withdraw_pool_deposit_token", payer,
                              creator_deposit_token, 0, r))

\* The result of the latest call has been returned to its caller.
Return ==
    /\ ~Idle
    /\ last' = NoCall
    /\ UNCHANGED <<now, pool, bal, supply, hist>>
    /\ UNCHANGED faucet

\* The clock is monotonic.
Tick ==
    /\ Idle
    /\ now < MaxTime
    /\ now' = now + 1
    /\ UNCHANGED <<pool, bal, supply, last, hist>>
    /\ UNCHANGED faucet

Next ==
    \/ InitializePool
    \/ ExchangeDepositTokenForRedeemable
    \/ ExchangeRedeemableForNative
    \/ WithdrawPoolDepositToken
    \/ Return
    \/ Tick

Spec == Init /\ [][Next]_vars

\* ------------------------------------------------- redemption arithmetic
\* The closed phase of a pool whose native vault holds any u64 amount v > 0 and
\* whose two participants hold any claim balances c1 and c2 the mint can have
\* issued: the pool was initialized with total_native_tokens = v, the
\* participants deposited c1 and c2 in the open phase, and the clock has
\* passed every timestamp of the pool.
InitArith ==
    /\ now = MaxTime
    /\ \E v \in 1 .. U64Max, c1 \in 0 .. U64Max, c2 \in 0 .. U64Max :
         /\ c1 + c2 <= U64Max
         /\ pool = PoolAccount("org", v, 1, MaxTime - 2, MaxTime - 1, CanonicalBump)
         /\ bal = [a \in Accounts |->
                     IF a = pool_native THEN v
                     ELSE IF a = pool_deposit_token THEN c1 + c2
                     ELSE IF a = <<"redeemable", "p1">> THEN c1
                     ELSE IF a = <<"redeemable", "p2">> THEN c2
                     ELSE 0]
         /\ supply = c1 + c2
         /\ hist = [NoHistory EXCEPT !.vault0 = v, !.deposited = c1 + c2,
                                     !.last_deposit = <<MaxTime - 3>>]
    /\ last = NoCall
    /\ FaucetFresh

\* A user redeems into their own native account from their own claim account.
Redeem ==
    \E authority \in Users :
       Redemption(authority, <<"native", authority>>, <<"redeemable", authority>>)

NextArith ==
    \/ Redeem
    \/ Return

SpecArith == InitArith /\ [][NextArith]_vars

\* ------------------------------------------------------- the token faucet
\* The faucet's mint, the mints of the token accounts a user may pass to
\* get_token, the name the distributor is created with and who creates it,
\* and the amounts a user may ask for: every u64.
TokenMint == "token"
UserMints == {TokenMint, "native"}
DistributorName == "distributor"
Creators == {"org"}
Requests == 0 .. U64Max

FaucetState == [account |-> distributor_account, supply |-> token_mint, bal |-> user_token_account]

\* The DistributorAccount fields initialize_distributor writes; the mint it
\* creates has supply 0 and no account of it holds anything.
initialize_distributor(distributor_creator, distributor_name, bumps) ==
    [err |-> "Ok",
     account |-> [is_initialized |-> TRUE,
                  distributor_name |-> distributor_name,
                  bumps |-> bumps,
                  token_mint |-> TokenMint,
                  creator_authority |-> distributor_creator,
                  token_supply |-> 0],
     supply |-> 0,
     bal |-> [u \in Users |-> 0]]

\* token::mint_to signed by the distributor account, the mint's authority:
\* the destination must be an account of the mint, and neither its amount
\* nor the mint's supply may exceed u64.
mint_to(st, to, amount) ==
    IF to[1] # TokenMint THEN [st EXCEPT !.account = "MintMismatch"]
    ELSE IF st.bal[to[2]] + amount > U64Max \/ st.supply + amount > U64Max
        THEN [st EXCEPT !.account = "Overflow"]
    ELSE [account |-> "Ok", supply |-> st.supply + amount,
          bal |-> [st.bal EXCEPT ![to[2]] = @ + amount]]

\* An Err or a panic aborts the transaction: nothing is written.
Refuse(st, e) == [err |-> e, account |-> st.account, supply |-> st.supply, bal |-> st.bal]

\* get_token going on to count the amount when token::mint_to has failed.
get_token_ignoring_mint(st, user_token_account_to, amount, overflow_checks) ==
    LET m == mint_to(st, user_token_account_to, amount)
        l == IF m.account = "Ok" THEN m ELSE st
        sum == st.account.token_supply + amount
    IN IF sum > U64Max /\ overflow_checks THEN Refuse(st, "Panic")
       ELSE [err |-> "Ok",
             account |-> [st.account EXCEPT !.token_supply = sum % (U64Max + 1)],
             supply |-> l.supply, bal |-> l.bal]

\* get_token: mint, then token_supply += amount.  An overflowing += panics in
\* a build with overflow checks and wraps in one without.
get_token(st, user_token_account_to, amount, overflow_checks) ==
    LET m == mint_to(st, user_token_account_to, amount)
        sum == st.account.token_supply + amount
    IN IF m.account # "Ok" THEN Refuse(st, m.account)
       ELSE IF sum > U64Max /\ overflow_checks THEN Refuse(st, "Panic")
       ELSE [err |-> "Ok",
             account |-> [st.account EXCEPT !.token_supply = sum % (U64Max + 1)],
             supply |-> m.supply, bal |-> m.bal]

\* The #[derive(Accounts)] constraints of the two instructions.
InitializeDistributorAccounts == ~distributor_account.is_initialized

GetTokenAccounts(user, user_token_account_to) ==
    /\ distributor_account.is_initialized
    /\ distributor_account.bumps = <<CanonicalBump, CanonicalBump>>
    /\ distributor_account.token_mint = TokenMint
    /\ user_token_account_to[2] = user

\* The record of a faucet call: its result, its amount, token_supply before
\* it, and the sum of the amounts of the successful get_token calls so far.
Request(op, amount, r) ==
    [op |-> op, err |-> r.err, amount |-> amount,
     pre |-> IF distributor_account.is_initialized
             THEN distributor_account.token_supply ELSE 0,
     issued |-> IF op = "get_token" /\ r.err = "Ok" THEN got.issued + amount
                ELSE got.issued]

Quiet == got.op = "none"

Apply(r, q) ==
    /\ distributor_account' = r.account
    /\ token_mint' = r.supply
    /\ user_token_account' = r.bal
    /\ got' = q
    /\ UNCHANGED ido

InitializeDistributor ==
    /\ Quiet
    /\ InitializeDistributorAccounts
    /\ \E distributor_creator \in Creators, b1 \in Bumps, b2 \in Bumps :
         LET r == initialize_distributor(distributor_creator, DistributorName, <<b1, b2>>)
         IN Apply(r, Request("initialize_distributor", 0, r))

GetToken ==
    /\ Quiet
    /\ \E user \in Users, m \in UserMints, amount \in Requests, overflow_checks \in BOOLEAN :
         /\ GetTokenAccounts(user, <<m, user>>)
         /\ LET r == get_token(FaucetState, <<m, user>>, amount, overflow_checks)
            IN Apply(r, Request("get_token", amount, r))

\* The result of the latest faucet call has been returned to its caller.
Returned ==
    /\ ~Quiet
    /\ got' = [NoRequest EXCEPT !.issued = got.issued]
    /\ UNCHANGED <<distributor_account, token_mint, user_token_account>>
    /\ UNCHANGED ido

NextFaucet ==
    \/ InitializeDistributor
    \/ GetToken
    \/ Returned

\* The faucet before initialize_distributor, beside a pool that is never created.
InitFaucet == Init /\ bal[pool_native] = 0

SpecFaucet == InitFaucet /\ [][NextFaucet]_vars

\* =================================================================== claims
Pre == last.pre
Succeeded == last.err = "Ok"
Unchanged == State = Pre
Redeemed == last.op = "exchange_redeemable_for_native"
Deposited == last.op = "exchange_deposit_token_for_redeemable"
Withdrew == last.op = "withdraw_pool_deposit_token"
Initialized == last.op = "initialize_pool"

\* floor(c * v / s) for s > 0, by its defining inequalities.
Floor(c, v, s) == CHOOSE k \in 0 .. (c * v) : k * s <= c * v /\ c * v < (k + 1) * s

\* C1: a successful exchange_redeemable_for_native by a participant holding c
\* claim tokens, with v in the native vault and a claim supply s > 0 before the
\* call, pays floor(c * v / s): the claim balance becomes 0, the supply s - c,
\* the vault v - floor(c*v/s), and the participant's native balance grows by
\* floor(c*v/s).
C1_RedemptionPaysFloorShare ==
    (Redeemed /\ Succeeded /\ Pre.supply > 0) =>
        LET who == last.authority
            c == Pre.bal[<<"redeemable", who>>]
            v == Pre.bal[pool_native]
            s == Pre.supply
            paid == Floor(c, v, s)
        IN /\ bal[<<"redeemable", who>>] = 0
           /\ supply = s - c
           /\ bal[pool_native] = v - paid
           /\ bal[<<"native", who>>] = Pre.bal[<<"native", who>>] + paid

\* A redemption that succeeded, paid something, and rounded its share down.
C1_Witness ==
    /\ Redeemed /\ Succeeded
    /\ Pre.bal[pool_native] > bal[pool_native]
    /\ (Pre.bal[<<"redeemable", last.authority>>] * Pre.bal[pool_native]) % Pre.supply # 0

\* C2: a successful exchange_deposit_token_for_redeemable of amount a > 0 takes
\* exactly a from the depositor's deposit-token balance and adds exactly a to
\* the depositor's claim balance, to the pool's deposit vault and to the claim
\* supply.
C2_DepositIsOneToOne ==
    (Deposited /\ Succeeded /\ last.amount > 0) =>
        LET who == last.authority
            a == last.amount
        IN /\ Pre.pool.start_ido_ts < now /\ now < Pre.pool.end_ido_ts
           /\ bal[<<"deposit", who>>] = Pre.bal[<<"deposit", who>>] - a
           /\ bal[<<"redeemable", who>>] = Pre.bal[<<"redeemable", who>>] + a
           /\ bal[pool_deposit_token] = Pre.bal[pool_deposit_token] + a
           /\ supply = Pre.supply + a

\* A deposit of part of a balance that succeeded on top of an earlier deposit.
C2_Witness ==
    /\ Deposited /\ Succeeded
    /\ Pre.supply > 0
    /\ bal[<<"deposit", last.authority>>] > 0

\* C3 as stated: deposit tokens that leave the pool's deposit vault through
\* withdraw_pool_deposit_token are credited only to an account owned by the
\* stored pool_authority, whoever calls and whichever destination is supplied.
C3_WithdrawalGoesToOrganizer ==
    (Withdrew /\ Succeeded /\ bal[pool_deposit_token] < Pre.bal[pool_deposit_token]) =>
        owner(last.dst) = pool.pool_authority

\* C4 as stated: a redemption after end_ts with a claim supply of 0 is rejected
\* with a "nothing to redeem" error of its own, without reaching the division
\* by the supply, and changes no balance.
C4_ZeroSupplyRedemptionRejected ==
    (Redeemed /\ now > Pre.pool.end_ido_ts /\ Pre.supply = 0) =>
        /\ last.err = "NothingToRedeem"
        /\ \A i \in 1 .. Len(last.steps) : last.steps[i] # "checked_div"
        /\ Unchanged

\* C5: a deposit-exchange called when the clock is not strictly between
\* start_ts and end_ts fails with WrongInvestingTime, whatever the amount and
\* the depositor's balance, and changes no account.
C5_DepositOutsideWindowRejected ==
    (Deposited /\ (now <= Pre.pool.start_ido_ts \/ now >= Pre.pool.end_ido_ts)) =>
        /\ last.err = "WrongInvestingTime"
        /\ last.steps = <<>>
        /\ Unchanged

\* A deposit the depositor could afford, rejected exactly at start_ts.
C5_Witness ==
    /\ Deposited
    /\ now = pool.start_ido_ts
    /\ last.amount > 0
    /\ bal[<<"deposit", last.authority>>] >= last.amount
    /\ last.err = "WrongInvestingTime"

\* C6 as stated: withdraw_pool_deposit_token fails with CannotWithdrawYet and
\* changes nothing when now <= withdraw_ts; when now > withdraw_ts it succeeds,
\* moves the whole deposit-vault balance to the destination and leaves the
\* vault at 0.
C6_WithdrawalEmptiesVault ==
    Withdrew =>
        IF now <= Pre.pool.withdraw_deposit_token_ts
        THEN last.err = "CannotWithdrawYet" /\ Unchanged
        ELSE /\ Succeeded
             /\ bal[pool_deposit_token] = 0
             /\ last.dst # pool_deposit_token =>
                    bal[last.dst] = Pre.bal[last.dst] + Pre.bal[pool_deposit_token]

Increasing(ts) == ts[1] < ts[2] /\ ts[2] < ts[3]

PoolOrdered ==
    pool.exists =>
        /\ pool.start_ido_ts < pool.end_ido_ts
        /\ pool.end_ido_ts < pool.withdraw_deposit_token_ts

\* C7 as stated: every pool record has start_ts < end_ts < withdraw_ts, and
\* every initialize_pool call with timestamps that are not strictly increasing
\* fails with NonSequentialTimestamps, whatever the amount and the clock.
C7_Original ==
    /\ PoolOrdered
    /\ (Initialized /\ ~Increasing(last.ts)) => last.err = "NonSequentialTimestamps"

\* C7 amended: every pool record has start_ts < end_ts < withdraw_ts, and every
\* initialize_pool call with timestamps that are not strictly increasing fails
\* and creates no pool: with NonSequentialTimestamps when now < start_ts,
\* whatever the amount, and with IdoFuture when now >= start_ts.
C7_OrderingEnforced ==
    /\ PoolOrdered
    /\ (Initialized /\ ~Increasing(last.ts)) =>
          /\ last.err = (IF now < last.ts[1] THEN "NonSequentialTimestamps"
                         ELSE "IdoFuture")
          /\ ~pool.exists
          /\ Unchanged

\* An initialize_pool call of amount 0 before start_ts, rejected for timestamps
\* whose end equals the withdraw timestamp.
C7_Witness ==
    /\ Initialized
    /\ last.amount = 0
    /\ now < last.ts[1]
    /\ last.ts[1] < last.ts[2] /\ last.ts[2] = last.ts[3]
    /\ last.err = "NonSequentialTimestamps"

\* C8 as stated: every initialize_pool call with total_native_tokens = 0 fails
\* with InvalidParameter, for every choice of timestamps and clock value,
\* without reaching the transfer and without creating a pool record.
C8_Original ==
    (Initialized /\ last.amount = 0) =>
        /\ last.err = "InvalidParameter"
        /\ last.steps = <<>>
        /\ ~pool.exists

\* C8 amended: every initialize_pool call with total_native_tokens = 0 fails
\* without reaching the transfer and without creating a pool record; the error
\* is IdoFuture when now >= start_ts, else NonSequentialTimestamps when the
\* timestamps are not strictly increasing, else InvalidParameter.
C8_ZeroTotalRejected ==
    (Initialized /\ last.amount = 0) =>
        /\ last.err = (IF now >= last.ts[1] THEN "IdoFuture"
                       ELSE IF ~Increasing(last.ts) THEN "NonSequentialTimestamps"
                       ELSE "InvalidParameter")
        /\ last.steps = <<>>
        /\ ~pool.exists
        /\ Unchanged

\* An initialize_pool call of amount 0 that passed the gate and the ordering
\* check, made by the holder of the native tokens.
C8_Witness ==
    /\ Initialized
    /\ last.amount = 0
    /\ now < last.ts[1]
    /\ Increasing(last.ts)
    /\ last.dst = <<"native", last.authority>>
    /\ last.err = "InvalidParameter"

\* C9 as stated: right after every successful initialize_pool the native vault
\* holds the stored total_native_tokens and the claim supply is 0, whatever the
\* native vault held before the call.
C9_VaultEqualsTotal ==
    (Initialized /\ Succeeded) =>
        /\ bal[pool_native] = pool.total_native_tokens
        /\ supply = 0

\* C10: each gate passes exactly on its own strict condition and fails with
\* its own error otherwise: initialize_pool iff now < start_ts (IdoFuture),
\* deposit iff start_ts < now < end_ts (WrongInvestingTime), redemption iff
\* now > end_ts (IdoNotOver), withdrawal iff now > withdraw_ts
\* (CannotWithdrawYet).  So nothing is accepted at now = start_ts by
\* initialize_pool or deposit, nothing at now = end_ts by deposit or
\* redemption, and a clock that passes the withdrawal gate passes the
\* redemption gate.
C10_GatesAreStrict ==
    /\ Initialized => (last.err = "IdoFuture" <=> ~(now < last.ts[1]))
    /\ Deposited =>
          (last.err = "WrongInvestingTime"
             <=> ~(Pre.pool.start_ido_ts < now /\ now < Pre.pool.end_ido_ts))
    /\ Redeemed => (last.err = "IdoNotOver" <=> ~(now > Pre.pool.end_ido_ts))
    /\ Withdrew =>
          (last.err = "CannotWithdrawYet" <=> ~(now > Pre.pool.withdraw_deposit_token_ts))
    /\ (Initialized /\ now = last.ts[1]) => ~Succeeded
    /\ (Deposited /\ now \in {Pre.pool.start_ido_ts, Pre.pool.end_ido_ts}) => ~Succeeded
    /\ (Redeemed /\ now = Pre.pool.end_ido_ts) => ~Succeeded
    /\ (pool.exists /\ now > pool.withdraw_deposit_token_ts) => now > pool.end_ido_ts

\* A redemption by a holder of claim tokens rejected exactly at end_ts.
C10_Witness ==
    /\ Redeemed
    /\ now = pool.end_ido_ts
    /\ bal[<<"redeemable", last.authority>>] > 0
    /\ last.err = "IdoNotOver"

\* C11: the phases are time-ordered and never re-entered.  A deposit succeeds
\* only while no redemption and no withdrawal has succeeded; once a redemption
\* has succeeded no call increases the claim supply; and the clock of the
\* latest successful deposit is strictly before the clock of the first
\* successful redemption, so no clock value accepts both.
C11_PhasesNeverReentered ==
    /\ (Deposited /\ Succeeded) =>
          (last.before.first_redeem = <<>> /\ ~last.before.withdrew)
    /\ (~Idle /\ last.before.first_redeem # <<>>) => supply <= Pre.supply
    /\ (hist.last_deposit # <<>> /\ hist.first_redeem # <<>>) =>
          hist.last_deposit[1] < hist.first_redeem[1]

\* A deposit the depositor could pay for, rejected after a redemption succeeded.
C11_Witness ==
    /\ Deposited /\ ~Succeeded
    /\ last.before.first_redeem # <<>>
    /\ last.before.last_deposit # <<>>
    /\ last.src = <<"deposit", last.authority>>
    /\ last.dst = <<"redeemable", last.authority>>
    /\ last.amount > 0
    /\ Pre.bal[last.src] >= last.amount

\* C12: in every state the pool's deposit vault holds the sum of the amounts of
\* the successful deposits minus the sum of the amounts that successful
\* withdrawals moved out of it; the vault is empty when the pool is created.
C12_VaultIsDepositsMinusWithdrawals ==
    bal[pool_deposit_token] = hist.deposited - hist.withdrawn

\* Deposits by both participants, then a withdrawal that moved them out.
C12_Witness ==
    /\ Withdrew /\ Succeeded
    /\ last.before.deposited > InitDeposit
    /\ hist.withdrawn = hist.deposited
    /\ bal[pool_deposit_token] = 0

\* C13: the last redeemer receives exactly what is left.  A successful
\* redemption by a participant whose claim balance is the whole claim supply
\* (> 0) pays the entire native vault; and once a redemption has succeeded and
\* no claim token is left, the native vault is 0 and the redeemers have been
\* paid, in total, the balance the vault had before the first redemption.
C13_LastRedeemerTakesTheRest ==
    /\ (Redeemed /\ Succeeded /\ Pre.supply > 0 /\ Pre.bal[last.src] = Pre.supply) =>
          /\ bal[pool_native] = 0
          /\ bal[last.dst] = Pre.bal[last.dst] + Pre.bal[pool_native]
    /\ (hist.first_redeem # <<>> /\ supply = 0) =>
          /\ bal[pool_native] = 0
          /\ hist.paid = hist.redeem_vault

\* Two holders have redeemed, the first one's share was rounded down, and the
\* second one took the rest.
C13_Witness ==
    /\ Redeemed /\ Succeeded
    /\ supply = 0
    /\ last.before.burned > 0
    /\ Pre.bal[last.src] > 0
    /\ hist.paid > 0
    /\ (last.before.burned * hist.redeem_vault) % hist.redeem_supply # 0

\* The errors of the program's own checks, and the steps that write to the
\* token ledger.
CoreErrors ==
    {"NonSequentialTimestamps", "InvalidParameter", "IdoFuture", "WrongInvestingTime",
     "LowDepositToken", "IdoNotOver", "CannotWithdrawYet", "Panic"}
Mutating == {"transfer", "mint_to", "burn"}

\* C14: a rejected call of any of the four instructions, whichever check or
\* ledger step rejected it, leaves the pool record, every token balance and the
\* claim supply as they were before the call; and a call rejected by one of the
\* program's own checks has attempted no ledger write before it.
C14_RejectedCallChangesNothing ==
    /\ (~Idle /\ ~Succeeded) => Unchanged
    /\ (~Idle /\ last.err \in CoreErrors) =>
          \A i \in 1 .. Len(last.steps) : last.steps[i] \notin Mutating
    /\ (~Idle /\ ~Succeeded /\ \E i \in 1 .. Len(last.steps) : last.steps[i] \in Mutating) =>
          last.err \in {"InsufficientFunds", "MintMismatch", "OwnerMismatch", "Overflow"}

\* A deposit whose transfer went through and whose mint was then refused.
C14_Witness ==
    /\ Deposited /\ ~Succeeded
    /\ last.steps = <<"transfer", "mint_to">>
    /\ last.amount > 0
    /\ Unchanged

\* The token accounts whose balance differs from the one before the latest call.
Touched == {a \in Accounts : bal[a] # Pre.bal[a]}

\* C15: no deposit, redemption or withdrawal changes a field of the pool
\* record.  A deposit leaves the native vault and the accounts of everybody
\* but the depositor alone; a redemption leaves the deposit vault, every
\* deposit-token account and the accounts of everybody but the redeemer alone;
\* a withdrawal leaves the native vault, the claim supply and every claim and
\* native account alone.
C15_PoolRecordAndFrames ==
    /\ (~Idle /\ ~Initialized) => pool = Pre.pool
    /\ Deposited =>
          \A a \in Touched : a = pool_deposit_token \/ owner(a) = last.authority
    /\ Redeemed =>
          \A a \in Touched : /\ mint(a) # "deposit"
                             /\ a = pool_native \/ owner(a) = last.authority
    /\ Withdrew =>
          /\ supply = Pre.supply
          /\ \A a \in Touched : mint(a) = "deposit"

\* A withdrawal that moved the deposits out while native tokens were still in
\* the vault and claim tokens still in circulation.
C15_Witness ==
    /\ Withdrew /\ Succeeded
    /\ Touched # {}
    /\ bal[pool_native] > 0
    /\ supply > 0
    /\ hist.burned > 0

\* The latest call was made strictly between the pool's start and end.
InOpenPhase == Pre.pool.start_ido_ts < now /\ now < Pre.pool.end_ido_ts

\* C16: a deposit is checked in the order phase gate, zero amount, balance.
\* Outside the open phase it fails with WrongInvestingTime whatever its amount;
\* inside it, amount 0 fails with InvalidParameter, and an amount above the
\* balance of the deposit-token account passed fails with LowDepositToken, both
\* before any transfer is attempted; these errors have no other cause.
C16_DepositCheckOrder ==
    Deposited =>
        /\ ~InOpenPhase => last.err = "WrongInvestingTime"
        /\ (InOpenPhase /\ last.amount = 0) =>
              (last.err = "InvalidParameter" /\ last.steps = <<>>)
        /\ (InOpenPhase /\ last.amount # 0 /\ last.amount > Pre.bal[last.src]) =>
              (last.err = "LowDepositToken" /\ last.steps = <<>>)
        /\ last.err = "InvalidParameter" => (InOpenPhase /\ last.amount = 0)
        /\ last.err = "LowDepositToken" =>
              (InOpenPhase /\ last.amount # 0 /\ last.amount > Pre.bal[last.src])

\* A depositor holding deposit tokens asked for more than they hold, in the
\* open phase.
C16_Witness ==
    /\ Deposited /\ InOpenPhase
    /\ last.src = <<"deposit", last.authority>>
    /\ Pre.bal[last.src] > 0
    /\ last.amount > Pre.bal[last.src]
    /\ last.err = "LowDepositToken"

\* The sum of the balances b of the token accounts in S.
RECURSIVE SumOver(_, _)
SumOver(b, S) == IF S = {} THEN 0 ELSE LET a == CHOOSE x \in S : TRUE IN b[a] + SumOver(b, S \ {a})

ClaimAccounts == {a \in Accounts : mint(a) = redeemable_mint}

\* The claim supply is the sum of the claim balances, and the latest call
\* changed it by the amount deposited, by minus the redeemer's whole claim
\* balance, or not at all.
SupplyIsSumOfClaims ==
    /\ supply = SumOver(bal, ClaimAccounts)
    /\ ~Idle =>
          supply - Pre.supply =
             IF Deposited /\ Succeeded THEN last.amount
             ELSE IF Redeemed /\ Succeeded THEN 0 - Pre.bal[last.src]
             ELSE 0

C18_ArithmeticNeverFails ==
    /\ (Redeemed /\ Pre.supply > 0 /\ Pre.bal[last.src] <= Pre.supply) =>
          LET product == checked_mul(Pre.bal[last.src], Pre.bal[pool_native])
              native_amount == checked_div(product[1], Pre.supply)
          IN /\ Len(product) = 1
             /\ Len(native_amount) = 1
             /\ native_amount[1] <= Pre.bal[pool_native]
             /\ native_amount[1] % (U64Max + 1) = native_amount[1]
             /\ last.err \notin {"Panic", "InsufficientFunds"}
    /\ bal[pool_native] >= 0
    /\ pool.exists => bal[pool_native] + hist.paid = hist.vault0

\* A redemption whose product c * v does not fit the narrow width.
C18_Witness ==
    /\ Redeemed /\ Succeeded
    /\ Pre.bal[last.src] * Pre.bal[pool_native] > U64Max
    /\ Pre.bal[last.src] < Pre.supply
    /\ hist.paid > 0

\* The native tokens the destination account of the latest call gained.
Received == bal[last.dst] - Pre.bal[last.dst]

\* C19: a redemption never lowers the payout ratio vault / supply of those who
\* have not redeemed yet: from (v, s) to (v', s') with s' > 0, v' * s >= v * s'.
\* So whatever the order, a redeemer holding c claim tokens receives at least
\* floor(c * V0 / S0), V0 and S0 being the native vault and the claim supply
\* before the first redemption; what rounding leaves goes to later redeemers.
C19_PayoutRatioNeverFalls ==
    /\ (Redeemed /\ Succeeded /\ supply > 0) =>
          bal[pool_native] * Pre.supply >= Pre.bal[pool_native] * supply
    /\ (Redeemed /\ Succeeded /\ Pre.supply > 0) =>
          Received >= Floor(Pre.bal[last.src], hist.redeem_vault, hist.redeem_supply)

\* A later redeemer who received more than the share of the original vault,
\* because an earlier share was rounded down.
C19_Witness ==
    /\ Redeemed /\ Succeeded
    /\ last.before.burned > 0
    /\ Pre.bal[last.src] > 0
    /\ Received > Floor(Pre.bal[last.src], hist.redeem_vault, hist.redeem_supply)

\* C20: at most one successful withdrawal moves tokens.  Once a withdrawal has
\* succeeded the deposit vault is 0 and stays 0, and every later withdrawal
\* succeeds and changes no balance.
C20_WithdrawalHappensOnce ==
    /\ hist.withdrew => bal[pool_deposit_token] = 0
    /\ (Withdrew /\ last.before.withdrew) => (Succeeded /\ Unchanged)

\* C21: the faucet's token_supply starts at 0 and is, in every state, the sum
\* of the amounts of the successful get_token calls, which is the supply of
\* the mint; the sum fits a u64, so the addition has not wrapped; and a
\* get_token that was rejected left token_supply as it was.
C21_TokenSupplyIsSumIssued ==
    /\ (got.op = "initialize_distributor") => distributor_account.token_supply = 0
    /\ distributor_account.is_initialized =>
          /\ distributor_account.token_supply = got.issued
          /\ distributor_account.token_supply = token_mint
          /\ got.issued <= U64Max
    /\ (got.op = "get_token" /\ got.err = "Ok") =>
          distributor_account.token_supply = got.pre + got.amount
    /\ (got.op = "get_token" /\ got.err # "Ok") =>
          distributor_account.token_supply = got.pre

\* After several users got tokens, a request that would take the sum past the
\* largest u64 was rejected by the mint.
C21_Witness ==
    /\ got.op = "get_token"
    /\ got.err = "Overflow"
    /\ got.amount > 0
    /\ got.pre > 0
    /\ got.pre + got.amount > U64Max
    /\ \E u \in Users, w \in Users : u # w /\ user_token_account[u] > 0 /\ user_token_account[w] > 0
====
